---- MODULE Spec2Model ----
(***************************************************************************)
(* Model of package rediscache (src/redis.go): a facade over a go-redis    *)
(* client.  The facade's own code is the constructor NewCache, defaults,   *)
(* GetClient, Close and 23 one-line delegations, each followed by the same *)
(* "err != nil && err != redis.Nil" block.  The go-redis client and the    *)
(* Redis server are the facade's environment: each c.client.X(...) call is *)
(* modelled by an operator clientX giving the reply the store sends for    *)
(* that command, and a call may instead fail in transport (context         *)
(* cancelled, deadline exceeded, connection error) without being executed. *)
(***************************************************************************)
EXTENDS Integers, Sequences, FiniteSets, TLC

\* ------------------------------------------------------------- bounds
MaxLen == 2        \* longest list the store holds
MaxInt == 2        \* counters stop at MaxInt
MaxConns == 2      \* pool connections open at once (the default PoolSize is 10)
MaxLogs == 2       \* connections opened over the lifetime
MaxCloses == 2     \* Close calls made

Keys == {"a", "b"}
StrVals == {"", "x", "1"}
ListVals == {"x", "y"}
MemberOrder == <<"m", "n">>
Members == {MemberOrder[i] : i \in 1..Len(MemberOrder)}
Scores == {1, 2}
Expirations == {-1, 0, 1}
Durations == {0, 1}
Indexes == {-1, 0, 1}
Ranges == {<<0, -1>>, <<0, 0>>, <<1, -1>>}
Positions == {"LEFT", "RIGHT"}
MinBounds == {"-inf", "(1"}
MaxBounds == {"+inf", "2"}
Limits == {<<0, 0>>, <<1, 1>>}
Counts == {<<>>, <<0>>, <<1>>, <<2>>}
Callers == {1, 2}

\* ------------------------------------------------------------- errors
Nil == "nil"
RedisNil == "redis: nil"
CtxCanceled == "context canceled"
DeadlineExceeded == "context deadline exceeded"
ConnRefused == "dial tcp: connection refused"
ErrClosed == "redis: client is closed"
WrongType == "WRONGTYPE Operation against a key holding the wrong kind of value"
ErrNoSuchKey == "ERR no such key"
ErrIndex == "ERR index out of range"
ErrNotInt == "ERR value is not an integer or out of range"
TransportErrs == {CtxCanceled, DeadlineExceeded}

\* ------------------------------------------------------------- values
Z(member, score) == [Member |-> member, Score |-> score]
ZSet == {Z(m, s) : m \in Members, s \in Scores}

Zero == [s |-> "", n |-> 0, b |-> FALSE, l |-> <<>>, z |-> <<>>]
Str(x) == [Zero EXCEPT !.s = x]
Num(x) == [Zero EXCEPT !.n = x]
Bool(x) == [Zero EXCEPT !.b = x]
Strs(x) == [Zero EXCEPT !.l = x]
Zs(x) == [Zero EXCEPT !.z = x]

Absent == [t |-> "none", s |-> "", l |-> <<>>, z |-> {}, m |-> {}]
vString(x) == [Absent EXCEPT !.t = "string", !.s = x]
vList(x) == IF x = <<>> THEN Absent ELSE [Absent EXCEPT !.t = "list", !.l = x]
vZSet(x) == IF x = {} THEN Absent ELSE [Absent EXCEPT !.t = "zset", !.z = x]
vSet(x) == IF x = {} THEN Absent ELSE [Absent EXCEPT !.t = "set", !.m = x]

NoArgs == [key |-> "", key2 |-> "", keys |-> <<>>, s1 |-> "", s2 |-> "",
           vals |-> <<>>, zs |-> <<>>, i |-> 0, j |-> 0, cnt |-> <<>>]

Range(f) == {f[i] : i \in DOMAIN f}
Min2(x, y) == IF x < y THEN x ELSE y
Max2(x, y) == IF x < y THEN y ELSE x
\* The variadic argument lists tried: one or two arguments.
Variadic(S) == [1..1 -> S] \cup [1..2 -> S]

VARIABLES
    store,      \* the server's keyspace: key -> value (Absent when the key does not exist)
    ttl,        \* keys that carry an expiry
    last,       \* the last facade call: operation, arguments, client outcome, facade outcome
    setv,       \* history: key -> <<v>> after Set(key, v, 0) returned nil, until the key next changes
    pops,       \* history: key -> members popped by consecutive ZPopMin(key), until another write
    phase,      \* "unconstructed" | "connected" | "closed" | "terminated"
    input,      \* the Config the caller handed to NewCache
    config,     \* c.config after defaults()
    options,    \* the redis.Options given to redis.NewClient
    client,     \* c.client: 0 is the nil handle, 1 the client NewClient made
    returned,   \* what NewCache returned: <<>> (nothing) or <<[cache, err]>>
    probe,      \* the error of the startup Ping
    logs,       \* "connected to host:port" events logged
    fatals,     \* "Could not ping redis" fatal events logged
    conns,      \* connections the pool holds open
    opened,     \* connections the pool has opened since NewClient
    pending,    \* per caller, a Ping in flight: "idle" | "called" | "holding" | "calledClosed"
    pres,       \* per caller, the last Ping's client outcome and facade outcome
    handle,     \* what GetClient last returned
    closeRet    \* per Close call made: client result and facade result

storeVars == <<store, ttl, last, setv, pops>>
lifeVars == <<phase, input, config, options, client, returned, probe, logs, fatals,
              conns, opened, pending, pres, handle, closeRet>>
vars == <<store, ttl, last, setv, pops, phase, input, config, options, client,
          returned, probe, logs, fatals, conns, opened, pending, pres, handle, closeRet>>

\* ------------------------------------------------- the store's commands
\* Each clientX is the outcome of c.client.X(ctx, ...).Result() when the command
\* reaches the server: the reply as go-redis parses it (a nil reply is the error
\* redis.Nil with the zero value), and the keyspace after the command.
Reply(r, e) == [resp |-> r, err |-> e, store |-> store, ttl |-> ttl]
Written(r, k, v) ==
    [resp |-> r, err |-> Nil, store |-> [store EXCEPT ![k] = v],
     ttl |-> IF v = Absent THEN ttl \ {k} ELSE ttl]
Failed(e) == Reply(Zero, e)

Rank(m) == CHOOSE i \in 1..Len(MemberOrder) : MemberOrder[i] = m
ZLess(x, y) ==
    \/ x.Score < y.Score
    \/ x.Score = y.Score /\ Rank(x.Member) < Rank(y.Member)
RECURSIVE SortZ(_)
SortZ(S) ==
    IF S = {} THEN <<>>
    ELSE LET lo == CHOOSE x \in S : \A y \in S \ {x} : ZLess(x, y)
         IN <<lo>> \o SortZ(S \ {lo})
RECURSIVE Reverse(_)
Reverse(q) == IF q = <<>> THEN <<>> ELSE Append(Reverse(Tail(q)), Head(q))
MemberNames(q) == [i \in 1..Len(q) |-> q[i].Member]
ZMembers(S) == {x.Member : x \in S}

\* Redis index range start..stop (negative counts from the end) of a sequence.
Slice(q, start, stop) ==
    LET n == Len(q)
        lo == Max2(IF start < 0 THEN start + n ELSE start, 0)
        hi == Min2(IF stop < 0 THEN stop + n ELSE stop, n - 1)
    IN IF lo > hi \/ lo >= n THEN <<>> ELSE SubSeq(q, lo + 1, hi + 1)

\* A ZRANGEBYSCORE bound: "-inf", "+inf", "n" (inclusive) or "(n" (exclusive).
AboveMin(score, min) ==
    \/ min = "-inf"
    \/ \E n \in Scores : ToString(n) = min /\ score >= n
    \/ \E n \in Scores : "(" \o ToString(n) = min /\ score > n
BelowMax(score, max) ==
    \/ max = "+inf"
    \/ \E n \in Scores : ToString(n) = max /\ score <= n
    \/ \E n \in Scores : "(" \o ToString(n) = max /\ score < n
\* go-redis adds LIMIT offset count when either is not zero; a negative count is "all".
Limit(q, offset, count) ==
    IF offset = 0 /\ count = 0 THEN q
    ELSE IF offset >= Len(q) THEN <<>>
    ELSE LET rest == SubSeq(q, offset + 1, Len(q))
         IN IF count < 0 THEN rest ELSE SubSeq(rest, 1, Min2(count, Len(rest)))
ByScore(S, min, max, offset, count) ==
    Limit(SortZ({x \in S : AboveMin(x.Score, min) /\ BelowMax(x.Score, max)}), offset, count)

RECURSIVE ZAddAll(_, _)
ZAddAll(S, members) ==
    IF members = <<>> THEN S
    ELSE ZAddAll({x \in S : x.Member # Head(members).Member} \cup {Head(members)},
                 Tail(members))
RECURSIVE RemFirst(_, _, _)
RemFirst(q, n, v) ==
    IF q = <<>> \/ n = 0 THEN q
    ELSE IF Head(q) = v THEN RemFirst(Tail(q), n - 1, v)
    ELSE <<Head(q)>> \o RemFirst(Tail(q), n, v)
IsInt(x) == \E n \in 0..MaxInt + 1 : ToString(n) = x
ParseInt(x) == CHOOSE n \in 0..MaxInt + 1 : ToString(n) = x

clientPing == Reply(Str("PONG"), Nil)

clientGet(key) ==
    LET v == store[key]
    IN CASE v.t = "none" -> Reply(Zero, RedisNil)
         [] v.t = "string" -> Reply(Str(v.s), Nil)
         [] OTHER -> Reply(Zero, WrongType)

\* expiration 0: no expiry; > 0: EX/PX; redis.KeepTTL (-1): KEEPTTL.
clientSet(key, value, expiration) ==
    [resp |-> Str("OK"), err |-> Nil,
     store |-> [store EXCEPT ![key] = vString(value)],
     ttl |-> CASE expiration > 0 -> ttl \cup {key}
               [] expiration = 0 -> ttl \ {key}
               [] OTHER -> ttl]

clientDel(keys) ==
    [resp |-> Num(Cardinality({k \in Range(keys) : store[k].t # "none"})), err |-> Nil,
     store |-> [k \in Keys |-> IF k \in Range(keys) THEN Absent ELSE store[k]],
     ttl |-> ttl \ Range(keys)]

clientZAdd(key, members) ==
    LET v == store[key]
        after == ZAddAll(v.z, members)
    IN IF v.t \notin {"none", "zset"} THEN Reply(Zero, WrongType)
       ELSE Written(Num(Cardinality(ZMembers(after)) - Cardinality(ZMembers(v.z))),
                    key, vZSet(after))

clientZCard(key) ==
    LET v == store[key]
    IN IF v.t \notin {"none", "zset"} THEN Reply(Zero, WrongType)
       ELSE Reply(Num(Cardinality(v.z)), Nil)

\* ZPOPMIN key [count]: the count lowest-scored members, lowest first.
clientZPopMin(key, count) ==
    LET v == store[key]
        n == IF count = <<>> THEN 1 ELSE count[1]
        sorted == SortZ(v.z)
        popped == SubSeq(sorted, 1, Min2(n, Len(sorted)))
    IN IF v.t \notin {"none", "zset"} THEN Reply(Zero, WrongType)
       ELSE Written(Zs(popped), key, vZSet(v.z \ Range(popped)))

clientZScore(key, member) ==
    LET v == store[key]
    IN CASE v.t \notin {"none", "zset"} -> Reply(Zero, WrongType)
         [] member \notin ZMembers(v.z) -> Reply(Zero, RedisNil)
         [] OTHER -> Reply(Num((CHOOSE x \in v.z : x.Member = member).Score), Nil)

clientZRem(key, member) ==
    LET v == store[key]
        after == {x \in v.z : x.Member # member}
    IN IF v.t \notin {"none", "zset"} THEN Reply(Zero, WrongType)
       ELSE Written(Num(Cardinality(v.z) - Cardinality(after)), key, vZSet(after))

clientZRange(key, start, stop) ==
    LET v == store[key]
    IN IF v.t \notin {"none", "zset"} THEN Reply(Zero, WrongType)
       ELSE Reply(Strs(MemberNames(Slice(SortZ(v.z), start, stop))), Nil)

clientZRangeByScoreWithScores(key, min, max, offset, count) ==
    LET v == store[key]
    IN IF v.t \notin {"none", "zset"} THEN Reply(Zero, WrongType)
       ELSE Reply(Zs(ByScore(v.z, min, max, offset, count)), Nil)

clientZRangeByScore(key, min, max, offset, count) ==
    LET v == store[key]
    IN IF v.t \notin {"none", "zset"} THEN Reply(Zero, WrongType)
       ELSE Reply(Strs(MemberNames(ByScore(v.z, min, max, offset, count))), Nil)

clientRPush(key, values) ==
    LET v == store[key]
    IN IF v.t \notin {"none", "list"} THEN Reply(Zero, WrongType)
       ELSE Written(Num(Len(v.l) + Len(values)), key, vList(v.l \o values))

clientLLen(key) ==
    LET v == store[key]
    IN IF v.t \notin {"none", "list"} THEN Reply(Zero, WrongType)
       ELSE Reply(Num(Len(v.l)), Nil)

\* LREM key count value: count > 0 from the head, < 0 from the tail, 0 all.
clientLRem(key, count, value) ==
    LET v == store[key]
        after == CASE count > 0 -> RemFirst(v.l, count, value)
                   [] count < 0 -> Reverse(RemFirst(Reverse(v.l), -count, value))
                   [] OTHER -> RemFirst(v.l, Len(v.l), value)
    IN IF v.t \notin {"none", "list"} THEN Reply(Zero, WrongType)
       ELSE Written(Num(Len(v.l) - Len(after)), key, vList(after))

clientLSet(key, index, value) ==
    LET v == store[key]
        at == IF index < 0 THEN index + Len(v.l) ELSE index
    IN CASE v.t = "none" -> Reply(Zero, ErrNoSuchKey)
         [] v.t # "list" -> Reply(Zero, WrongType)
         [] at < 0 \/ at >= Len(v.l) -> Reply(Zero, ErrIndex)
         [] OTHER -> Written(Str("OK"), key, vList([v.l EXCEPT ![at + 1] = value]))

clientLPop(key) ==
    LET v == store[key]
    IN CASE v.t = "none" -> Reply(Zero, RedisNil)
         [] v.t # "list" -> Reply(Zero, WrongType)
         [] OTHER -> Written(Str(Head(v.l)), key, vList(Tail(v.l)))

clientLRange(key, start, stop) ==
    LET v == store[key]
    IN IF v.t \notin {"none", "list"} THEN Reply(Zero, WrongType)
       ELSE Reply(Strs(Slice(v.l, start, stop)), Nil)

\* LMOVE source destination LEFT|RIGHT LEFT|RIGHT, one command of the server.
clientLMove(source, destination, srcpos, destpos) ==
    LET src == store[source]
        el == IF srcpos = "LEFT" THEN Head(src.l) ELSE src.l[Len(src.l)]
        rest == IF srcpos = "LEFT" THEN Tail(src.l) ELSE SubSeq(src.l, 1, Len(src.l) - 1)
        taken == [store EXCEPT ![source] = vList(rest)]
        dst == taken[destination]
        put == IF destpos = "LEFT" THEN <<el>> \o dst.l ELSE Append(dst.l, el)
        moved == [taken EXCEPT ![destination] = vList(put)]
    IN CASE src.t = "none" -> Reply(Zero, RedisNil)
         [] src.t # "list" -> Reply(Zero, WrongType)
         [] store[destination].t \notin {"none", "list"} -> Reply(Zero, WrongType)
         [] OTHER -> [resp |-> Str(el), err |-> Nil, store |-> moved,
                      ttl |-> {k \in ttl : moved[k] # Absent}]

\* SMEMBERS replies with the members in an order the server chooses.
clientSMembers(key) ==
    LET v == store[key]
        n == Cardinality(v.m)
    IN IF v.t \notin {"none", "set"} THEN {Reply(Zero, WrongType)}
       ELSE {Reply(Strs(q), Nil) : q \in {p \in [1..n -> v.m] : Range(p) = v.m}}

clientSAdd(key, members) ==
    LET v == store[key]
        after == v.m \cup Range(members)
    IN IF v.t \notin {"none", "set"} THEN Reply(Zero, WrongType)
       ELSE Written(Num(Cardinality(after) - Cardinality(v.m)), key, vSet(after))

clientIncr(key) ==
    LET v == store[key]
    IN CASE v.t = "none" -> Written(Num(1), key, vString(ToString(1)))
         [] v.t # "string" -> Reply(Zero, WrongType)
         [] ~IsInt(v.s) -> Reply(Zero, ErrNotInt)
         [] OTHER -> Written(Num(ParseInt(v.s) + 1), key, vString(ToString(ParseInt(v.s) + 1)))

\* EXPIRE key seconds: a timeout that is not positive deletes the key at once.
clientExpire(key, expiration) ==
    CASE store[key].t = "none" -> Reply(Bool(FALSE), Nil)
      [] expiration <= 0 -> Written(Bool(TRUE), key, Absent)
      [] OTHER -> [resp |-> Bool(TRUE), err |-> Nil, store |-> store, ttl |-> ttl \cup {key}]

\* ------------------------------------------------- the facade's operations
\* The block every method ends with:
\*     if err != nil && err != redis.Nil { return response, err }
\*     return response, nil
\* The block with the error dropped whatever it is.
normalizeDropsAll(response, err) == [resp |-> response, err |-> Nil]

\* The block without the redis.Nil test.
normalizeKeepsNil(response, err) == [resp |-> response, err |-> err]

\* The block with "client is closed" treated like the sentinel.
normalizeDropsClosed(response, err) ==
    [resp |-> response,
     err |-> IF err # Nil /\ err # RedisNil /\ err # ErrClosed THEN err ELSE Nil]

normalize(response, err) ==
    [resp |-> response, err |-> IF err # Nil /\ err # RedisNil THEN err ELSE Nil]

\* What a client call can come back with: the store's reply, or a transport
\* failure of a command that was not executed.
Outcomes(o) == {o} \cup {Failed(e) : e \in TransportErrs}

NoCall == [op |-> "none", args |-> NoArgs, absent |-> FALSE,
           cresp |-> Zero, cerr |-> Nil, resp |-> Zero, err |-> Nil]

\* A facade call returns: the call is recorded (its arguments when the command
\* was executed) and the store is as the command left it.
Done(op, args, absent, o, r) ==
    /\ last' = [op |-> op, args |-> IF o.err \in TransportErrs THEN NoArgs ELSE args,
                absent |-> absent,
                cresp |-> o.resp, cerr |-> o.err, resp |-> r.resp, err |-> r.err]
    /\ store' = o.store
    /\ ttl' = o.ttl
    /\ setv' = [k \in Keys |->
                  IF op = "Set" /\ args.key = k /\ args.i = 0 /\ r.err = Nil
                  THEN <<args.s1>>
                  ELSE IF o.store[k] # store[k] \/ (k \in o.ttl) # (k \in ttl)
                  THEN <<>>
                  ELSE setv[k]]
    /\ pops' = [k \in Keys |->
                  IF op = "ZPopMin" /\ args.key = k /\ args.cnt = <<>> /\ r.err = Nil
                     /\ r.resp.z # <<>>
                  THEN pops[k] \o r.resp.z
                  ELSE IF o.store[k] # store[k] THEN <<>> ELSE pops[k]]
    /\ UNCHANGED lifeVars

Missing(key) == store[key].t = "none"

\* The facade is connected and the caller holds no unread result.
Ready == phase = "connected" /\ last = NoCall

Ping ==
    /\ Ready
    /\ \E o \in Outcomes(clientPing) :
            Done("Ping", NoArgs, FALSE, o, normalize(o.resp, o.err))

Get(key) ==
    /\ Ready
    /\ \E o \in Outcomes(clientGet(key)) :
            Done("Get", [NoArgs EXCEPT !.key = key], Missing(key), o, normalize(o.resp, o.err))

\* Set with the client's error dropped.
SetIgnoresErr(key, value, expiration) ==
    /\ Ready
    /\ \E o \in Outcomes(clientSet(key, value, expiration)) :
            Done("Set", [NoArgs EXCEPT !.key = key, !.s1 = value, !.i = expiration],
                 Missing(key), o, [resp |-> o.resp, err |-> Nil])

Set(key, value, expiration) ==
    /\ Ready
    /\ \E o \in Outcomes(clientSet(key, value, expiration)) :
            Done("Set", [NoArgs EXCEPT !.key = key, !.s1 = value, !.i = expiration],
                 Missing(key), o, normalize(o.resp, o.err))

Del(keys) ==
    /\ Ready
    /\ \E o \in Outcomes(clientDel(keys)) :
            Done("Del", [NoArgs EXCEPT !.keys = keys], \A k \in Range(keys) : Missing(k),
                 o, normalize(o.resp, o.err))

ZAdd(key, members) ==
    /\ Ready
    /\ \E o \in Outcomes(clientZAdd(key, members)) :
            Done("ZAdd", [NoArgs EXCEPT !.key = key, !.zs = members], Missing(key),
                 o, normalize(o.resp, o.err))

ZCard(key) ==
    /\ Ready
    /\ \E o \in Outcomes(clientZCard(key)) :
            Done("ZCard", [NoArgs EXCEPT !.key = key], Missing(key), o, normalize(o.resp, o.err))

\* ZPOPMAX key [count]: the count highest-scored members, highest first.
clientZPopMax(key, count) ==
    LET v == store[key]
        n == IF count = <<>> THEN 1 ELSE count[1]
        sorted == Reverse(SortZ(v.z))
        popped == SubSeq(sorted, 1, Min2(n, Len(sorted)))
    IN IF v.t \notin {"none", "zset"} THEN Reply(Zero, WrongType)
       ELSE Written(Zs(popped), key, vZSet(v.z \ Range(popped)))

\* ZPopMin delegating to the client's ZPopMax.
ZPopMinCallsMax(key, count) ==
    /\ Ready
    /\ \E o \in Outcomes(clientZPopMax(key, count)) :
            Done("ZPopMin", [NoArgs EXCEPT !.key = key, !.cnt = count], Missing(key),
                 o, normalize(o.resp, o.err))

ZPopMin(key, count) ==
    /\ Ready
    /\ \E o \in Outcomes(clientZPopMin(key, count)) :
            Done("ZPopMin", [NoArgs EXCEPT !.key = key, !.cnt = count], Missing(key),
                 o, normalize(o.resp, o.err))

ZScore(key, member) ==
    /\ Ready
    /\ \E o \in Outcomes(clientZScore(key, member)) :
            Done("ZScore", [NoArgs EXCEPT !.key = key, !.s1 = member], Missing(key),
                 o, normalize(o.resp, o.err))

ZRem(key, member) ==
    /\ Ready
    /\ \E o \in Outcomes(clientZRem(key, member)) :
            Done("ZRem", [NoArgs EXCEPT !.key = key, !.s1 = member], Missing(key),
                 o, normalize(o.resp, o.err))

ZRange(key, start, stop) ==
    /\ Ready
    /\ \E o \in Outcomes(clientZRange(key, start, stop)) :
            Done("ZRange", [NoArgs EXCEPT !.key = key, !.i = start, !.j = stop], Missing(key),
                 o, normalize(o.resp, o.err))

ZRangeByScoreWithScores(key, min, max, offset, count) ==
    /\ Ready
    /\ \E o \in Outcomes(clientZRangeByScoreWithScores(key, min, max, offset, count)) :
            Done("ZRangeByScoreWithScores",
                 [NoArgs EXCEPT !.key = key, !.s1 = min, !.s2 = max, !.i = offset, !.j = count],
                 Missing(key), o, normalize(o.resp, o.err))

ZRangeByScore(key, min, max, offset, count) ==
    /\ Ready
    /\ \E o \in Outcomes(clientZRangeByScore(key, min, max, offset, count)) :
            Done("ZRangeByScore",
                 [NoArgs EXCEPT !.key = key, !.s1 = min, !.s2 = max, !.i = offset, !.j = count],
                 Missing(key), o, normalize(o.resp, o.err))

RPush(key, values) ==
    /\ Ready
    /\ Len(store[key].l) + Len(values) <= MaxLen
    /\ \E o \in Outcomes(clientRPush(key, values)) :
        Done("RPush", [NoArgs EXCEPT !.key = key, !.vals = values], Missing(key),
             o, normalize(o.resp, o.err))

LLen(key) ==
    /\ Ready
    /\ \E o \in Outcomes(clientLLen(key)) :
            Done("LLen", [NoArgs EXCEPT !.key = key], Missing(key), o, normalize(o.resp, o.err))

LRem(key, count, value) ==
    /\ Ready
    /\ \E o \in Outcomes(clientLRem(key, count, value)) :
            Done("LRem", [NoArgs EXCEPT !.key = key, !.i = count, !.s1 = value], Missing(key),
                 o, normalize(o.resp, o.err))

LSet(key, index, value) ==
    /\ Ready
    /\ \E o \in Outcomes(clientLSet(key, index, value)) :
            Done("LSet", [NoArgs EXCEPT !.key = key, !.i = index, !.s1 = value], Missing(key),
                 o, normalize(o.resp, o.err))

LPop(key) ==
    /\ Ready
    /\ \E o \in Outcomes(clientLPop(key)) :
            Done("LPop", [NoArgs EXCEPT !.key = key], Missing(key), o, normalize(o.resp, o.err))

LRange(key, start, stop) ==
    /\ Ready
    /\ \E o \in Outcomes(clientLRange(key, start, stop)) :
            Done("LRange", [NoArgs EXCEPT !.key = key, !.i = start, !.j = stop], Missing(key),
                 o, normalize(o.resp, o.err))

\* LMove handing the two positions to the client in the other order.
LMoveSwapsPositions(source, destination, srcpos, destpos) ==
    /\ Ready
    /\ source # destination => Len(store[destination].l) < MaxLen
    /\ \E o \in Outcomes(clientLMove(source, destination, destpos, srcpos)) :
            Done("LMove",
                 [NoArgs EXCEPT !.key = source, !.key2 = destination, !.s1 = srcpos, !.s2 = destpos],
                 Missing(source), o, normalize(o.resp, o.err))

LMove(source, destination, srcpos, destpos) ==
    /\ Ready
    /\ source # destination => Len(store[destination].l) < MaxLen
    /\ \E o \in Outcomes(clientLMove(source, destination, srcpos, destpos)) :
        Done("LMove",
             [NoArgs EXCEPT !.key = source, !.key2 = destination, !.s1 = srcpos, !.s2 = destpos],
             Missing(source), o, normalize(o.resp, o.err))

SMembers(key) ==
    /\ Ready
    /\ \E o \in clientSMembers(key) \cup {Failed(e) : e \in TransportErrs} :
            Done("SMembers", [NoArgs EXCEPT !.key = key], Missing(key), o, normalize(o.resp, o.err))

SAdd(key, members) ==
    /\ Ready
    /\ \E o \in Outcomes(clientSAdd(key, members)) :
            Done("SAdd", [NoArgs EXCEPT !.key = key, !.vals = members], Missing(key),
                 o, normalize(o.resp, o.err))

Incr(key) ==
    /\ Ready
    /\ IsInt(store[key].s) => ParseInt(store[key].s) < MaxInt
    /\ \E o \in Outcomes(clientIncr(key)) :
        Done("Incr", [NoArgs EXCEPT !.key = key], Missing(key), o, normalize(o.resp, o.err))

Expire(key, expiration) ==
    /\ Ready
    /\ \E o \in Outcomes(clientExpire(key, expiration)) :
            Done("Expire", [NoArgs EXCEPT !.key = key, !.i = expiration], Missing(key),
                 o, normalize(o.resp, o.err))

\* The server drops a key whose expiry has passed.
Expired(key) ==
    /\ last = NoCall
    /\ key \in ttl
    /\ store' = [store EXCEPT ![key] = Absent]
    /\ ttl' = ttl \ {key}
    /\ last' = [NoCall EXCEPT !.op = "expired", !.args = [NoArgs EXCEPT !.key = key]]
    /\ setv' = [setv EXCEPT ![key] = <<>>]
    /\ pops' = [pops EXCEPT ![key] = <<>>]
    /\ UNCHANGED lifeVars

\* The caller has read the result of its last call and goes on to the next.
Resume ==
    /\ last # NoCall
    /\ last' = NoCall
    /\ UNCHANGED <<store, ttl, setv, pops>>
    /\ UNCHANGED lifeVars

\* ------------------------------------------------- construction and lifecycle
Hosts == {"", "10.0.0.5"}
Ports == {0, 9876}
Passwords == {"", "596a96cc"}
DBs == {0, 1}
Retries == {0, 5}
PoolSizes == {0, 1}
Configs == [Host : Hosts, Port : Ports, Password : Passwords, DB : DBs,
            MaxRetries : Retries, PoolSize : PoolSizes]
ZeroConfig == [Host |-> "", Port |-> 0, Password |-> "", DB |-> 0,
               MaxRetries |-> 0, PoolSize |-> 0]
NoOptions == [Addr |-> "", Password |-> "", DB |-> 0, MaxRetries |-> 0, PoolSize |-> 0]
ErrIOTimeout == "i/o timeout"
NoPing == [cresp |-> Zero, cerr |-> Nil, resp |-> Zero, err |-> Nil, afterClose |-> FALSE]

\* defaults() that assigns every field, supplied or not.
defaultsAlways(conf) ==
    [conf EXCEPT !.Host = "127.0.0.1", !.Port = 6379, !.DB = 0,
                 !.MaxRetries = 3, !.PoolSize = 10]

defaults(conf) ==
    [conf EXCEPT
        !.Host = IF conf.Host = "" THEN "127.0.0.1" ELSE conf.Host,
        !.Port = IF conf.Port = 0 THEN 6379 ELSE conf.Port,
        !.DB = IF conf.DB = 0 THEN 0 ELSE conf.DB,
        !.MaxRetries = IF conf.MaxRetries = 0 THEN 3 ELSE conf.MaxRetries,
        !.PoolSize = IF conf.PoolSize = 0 THEN 10 ELSE conf.PoolSize]

\* fmt.Sprintf("%s:%d", host, port)
Sprintf(host, port) == host \o ":" \o ToString(port)

\* The redis.Options NewCache builds from c.config.
NewOptions(conf) ==
    [Addr |-> Sprintf(conf.Host, conf.Port), Password |-> conf.Password, DB |-> conf.DB,
     MaxRetries |-> conf.MaxRetries, PoolSize |-> conf.PoolSize]

\* A "log once" variant of the callback.
OnConnectOnce == logs' = IF logs = 0 THEN 1 ELSE logs

\* The OnConnect callback: one log.Info event, "connected to host:port".
OnConnect == logs' = logs + 1

\* The pool establishes a connection and runs the client's OnConnect on it.
Dial ==
    /\ opened' = opened + 1
    /\ OnConnect

\* The check of the startup Ping's error left out.
probeFailedNever(err) == FALSE

\* "if err != nil" after the startup Ping
probeFailed(err) == err # Nil

\* The startup Ping: the dial fails (no connection, no OnConnect), or the
\* connection is made and the PING times out, or the PING is answered.
Probes == {[dialed |-> FALSE, err |-> ConnRefused],
           [dialed |-> TRUE, err |-> ErrIOTimeout],
           [dialed |-> TRUE, err |-> Nil]}

\* log.Fatal(...).Msgf(...) ends the process: NewCache never returns.
NewCache(conf) ==
    /\ phase = "unconstructed"
    /\ input' = conf
    /\ config' = defaults(conf)
    /\ options' = NewOptions(defaults(conf))
    /\ \E p \in Probes :
        /\ probe' = p.err
        /\ IF p.dialed THEN Dial ELSE UNCHANGED <<logs, opened>>
        /\ IF probeFailed(p.err)
           THEN /\ fatals' = fatals + 1
                /\ phase' = "terminated"
                /\ UNCHANGED <<client, returned, conns>>
           ELSE /\ client' = 1
                /\ returned' = <<[cache |-> 1, err |-> Nil]>>
                /\ phase' = "connected"
                /\ conns' = IF p.dialed THEN 1 ELSE 0
                /\ UNCHANGED fatals
    /\ UNCHANGED <<pending, pres, handle, closeRet>>
    /\ UNCHANGED storeVars

GetClient ==
    /\ phase \in {"connected", "closed"}
    /\ handle' = client
    /\ UNCHANGED <<phase, input, config, options, client, returned, probe, logs, fatals,
                   conns, opened, pending, pres, closeRet>>
    /\ UNCHANGED storeVars

\* c.client.Close(): the pool closes its connections; a closed pool answers ErrClosed.
clientClose == IF phase = "closed" THEN ErrClosed ELSE Nil

\* A Close that returns nil and leaves the client open.
CloseLeavesOpen ==
    /\ phase \in {"connected", "closed"}
    /\ Len(closeRet) < MaxCloses
    /\ closeRet' = Append(closeRet, [cerr |-> Nil, err |-> Nil])
    /\ UNCHANGED <<phase, conns>>
    /\ UNCHANGED <<input, config, options, client, returned, probe, logs, fatals,
                   opened, pending, pres, handle>>
    /\ UNCHANGED storeVars

\* "return c.client.Close()": the client's result is the facade's result.
Close ==
    /\ phase \in {"connected", "closed"}
    /\ Len(closeRet) < MaxCloses
    /\ \E e \in {clientClose} :
        closeRet' = Append(closeRet, [cerr |-> e, err |-> e])
    /\ phase' = "closed"
    /\ conns' = 0
    /\ UNCHANGED <<input, config, options, client, returned, probe, logs, fatals,
                   opened, pending, pres, handle>>
    /\ UNCHANGED storeVars

\* A caller enters Ping and waits in c.client.Ping(ctx).Result().
PingCall(c) ==
    /\ phase \in {"connected", "closed"}
    /\ pending[c] = "idle"
    /\ pending' = [pending EXCEPT ![c] = IF phase = "closed" THEN "calledClosed" ELSE "called"]
    /\ UNCHANGED <<phase, input, config, options, client, returned, probe, logs, fatals,
                   conns, opened, pres, handle, closeRet>>
    /\ UNCHANGED storeVars

\* Connections that a call in flight holds.
Busy == Cardinality({c \in Callers : pending[c] = "holding"})

\* The client call takes a connection from the pool: an idle one, or, when
\* every open connection is in use and the pool is below PoolSize, a new one,
\* on which the pool runs OnConnect.
Acquire(c) ==
    /\ phase = "connected"
    /\ pending[c] = "called"
    /\ IF conns > Busy
       THEN UNCHANGED <<logs, opened, conns>>
       ELSE /\ conns < Min2(config.PoolSize, MaxConns)
            /\ opened < MaxLogs
            /\ Dial
            /\ conns' = conns + 1
    /\ pending' = [pending EXCEPT ![c] = "holding"]
    /\ UNCHANGED <<phase, input, config, options, client, returned, probe, fatals,
                   pres, handle, closeRet>>
    /\ UNCHANGED storeVars

\* What c.client.Ping comes back with for a call in flight: on a pool closed
\* before the call, ErrClosed; while it waits for a connection, the context's
\* or the pool's timeout; on a connection, the reply or a timeout.
pingOutcomes(c) ==
    CASE pending[c] = "calledClosed" -> {[resp |-> Zero, err |-> ErrClosed]}
      [] pending[c] = "called" ->
           IF phase = "closed" THEN {[resp |-> Zero, err |-> ErrClosed]}
           ELSE {[resp |-> Zero, err |-> e] : e \in {CtxCanceled, ErrIOTimeout}}
      [] OTHER ->
           IF phase = "closed"
           THEN {[resp |-> Str("PONG"), err |-> Nil], [resp |-> Zero, err |-> ErrClosed]}
           ELSE {[resp |-> Str("PONG"), err |-> Nil]}
                \cup {[resp |-> Zero, err |-> e] : e \in {CtxCanceled, ErrIOTimeout}}

\* The client call comes back and Ping returns; a connection that failed is
\* removed from the pool, one that answered goes back to it.
PingReturn(c) ==
    /\ pending[c] # "idle"
    /\ \E o \in pingOutcomes(c) :
        /\ conns' = IF pending[c] = "holding" /\ phase = "connected" /\ o.err # Nil
                    THEN conns - 1 ELSE conns
        /\ pres' = [pres EXCEPT ![c] =
                      [cresp |-> o.resp, cerr |-> o.err,
                       resp |-> normalize(o.resp, o.err).resp,
                       err |-> normalize(o.resp, o.err).err,
                       afterClose |-> pending[c] = "calledClosed"]]
    /\ pending' = [pending EXCEPT ![c] = "idle"]
    /\ UNCHANGED <<phase, input, config, options, client, returned, probe, logs, fatals,
                   opened, handle, closeRet>>
    /\ UNCHANGED storeVars

\* The pool or the server drops an idle connection.
ConnDrop ==
    /\ phase = "connected"
    /\ conns > Busy
    /\ conns' = conns - 1
    /\ UNCHANGED <<phase, input, config, options, client, returned, probe, logs, fatals,
                   opened, pending, pres, handle, closeRet>>
    /\ UNCHANGED storeVars

\* ------------------------------------------------- specifications
\* The data operations, on a facade NewCache returned for the zero Config.  One
\* caller at a time holds a result: it calls, reads what came back, and calls
\* again; between calls the server may expire a key.
Init ==
    /\ store = [k \in Keys |-> Absent]
    /\ ttl = {}
    /\ last = NoCall
    /\ setv = [k \in Keys |-> <<>>]
    /\ pops = [k \in Keys |-> <<>>]
    /\ phase = "connected"
    /\ input = ZeroConfig
    /\ config = defaults(ZeroConfig)
    /\ options = NewOptions(defaults(ZeroConfig))
    /\ client = 1
    /\ returned = <<[cache |-> 1, err |-> Nil]>>
    /\ probe = Nil
    /\ logs = 1
    /\ fatals = 0
    /\ conns = 1
    /\ opened = 1
    /\ pending = [c \in Callers |-> "idle"]
    /\ pres = [c \in Callers |-> NoPing]
    /\ handle = 0
    /\ closeRet = <<>>

Next ==
    \/ Ping
    \/ \E k \in Keys : Get(k)
    \/ \E k \in Keys, v \in StrVals, e \in Expirations : Set(k, v, e)
    \/ \E ks \in Variadic(Keys) : Del(ks)
    \/ \E k \in Keys, ms \in Variadic(ZSet) : ZAdd(k, ms)
    \/ \E k \in Keys : ZCard(k)
    \/ \E k \in Keys, n \in Counts : ZPopMin(k, n)
    \/ \E k \in Keys, m \in Members : ZScore(k, m)
    \/ \E k \in Keys, m \in Members : ZRem(k, m)
    \/ \E k \in Keys, r \in Ranges : ZRange(k, r[1], r[2])
    \/ \E k \in Keys, lo \in MinBounds, hi \in MaxBounds, lim \in Limits :
          ZRangeByScoreWithScores(k, lo, hi, lim[1], lim[2])
    \/ \E k \in Keys, lo \in MinBounds, hi \in MaxBounds, lim \in Limits :
          ZRangeByScore(k, lo, hi, lim[1], lim[2])
    \/ \E k \in Keys, vs \in Variadic(ListVals) : RPush(k, vs)
    \/ \E k \in Keys : LLen(k)
    \/ \E k \in Keys, n \in Indexes, v \in ListVals : LRem(k, n, v)
    \/ \E k \in Keys, i \in Indexes, v \in ListVals : LSet(k, i, v)
    \/ \E k \in Keys : LPop(k)
    \/ \E k \in Keys, r \in Ranges : LRange(k, r[1], r[2])
    \/ \E s \in Keys, d \in Keys, sp \in Positions, dp \in Positions : LMove(s, d, sp, dp)
    \/ \E k \in Keys : SMembers(k)
    \/ \E k \in Keys, ms \in Variadic(ListVals) : SAdd(k, ms)
    \/ \E k \in Keys : Incr(k)
    \/ \E k \in Keys, d \in Durations : Expire(k, d)
    \/ \E k \in Keys : Expired(k)
    \/ Resume

Spec == Init /\ [][Next]_vars

\* Construction, concurrent Pings, the pool's connections and Close.
LifeInit ==
    /\ store = [k \in Keys |-> Absent]
    /\ ttl = {}
    /\ last = NoCall
    /\ setv = [k \in Keys |-> <<>>]
    /\ pops = [k \in Keys |-> <<>>]
    /\ phase = "unconstructed"
    /\ input = ZeroConfig
    /\ config = ZeroConfig
    /\ options = NoOptions
    /\ client = 0
    /\ returned = <<>>
    /\ probe = Nil
    /\ logs = 0
    /\ fatals = 0
    /\ conns = 0
    /\ opened = 0
    /\ pending = [c \in Callers |-> "idle"]
    /\ pres = [c \in Callers |-> NoPing]
    /\ handle = 0
    /\ closeRet = <<>>

LifeNext ==
    \/ \E conf \in Configs : NewCache(conf)
    \/ GetClient
    \/ Close
    \/ \E c \in Callers : PingCall(c)
    \/ \E c \in Callers : Acquire(c)
    \/ \E c \in Callers : PingReturn(c)
    \/ ConnDrop

\* A Ping in flight comes back: the client call returns its reply, its
\* timeout or, on a closed pool, ErrClosed.
LifeSpec ==
    /\ LifeInit
    /\ [][LifeNext]_vars
    /\ \A c \in Callers : WF_vars(PingReturn(c))

\* ------------------------------------------------- properties
Executed == last.op \notin {"none", "expired"} /\ last.cerr \notin TransportErrs

\* C1: whatever the client call came back with (result r, error e), the facade
\* returns r unchanged, a nil error when e is nil or redis.Nil, and e itself
\* for every other error, context cancellation and deadline exceeded included.
FacadeNormalizes ==
    last.op \notin {"none", "expired"} =>
        /\ last.resp = last.cresp
        /\ last.err = IF last.cerr \in {Nil, RedisNil} THEN Nil ELSE last.cerr

\* C1 witness: LPop of a missing key came back redis.Nil and returned nil.
FacadeNormalizesWitness ==
    last.op = "LPop" /\ last.cerr = RedisNil /\ last.err = Nil /\ last.resp = Zero

\* C2 as stated: an operation on a key that does not exist, once the store
\* has answered it, returns the zero value and a nil error, whatever the operation.
AbsentKeyYieldsZero ==
    Executed /\ last.absent => last.resp = Zero /\ last.err = Nil

\* C2 amended: on a key that does not exist, once the store has answered, the
\* reading, removing and popping operations (and Expire, and LMove from a
\* missing source) return the zero value and nil; Set returns "OK", RPush, SAdd
\* and ZAdd the number of elements added, Incr 1, each with a nil error; LSet
\* returns the store's "no such key" error.
AbsentKeyResult ==
    Executed /\ last.absent /\ last.op # "Ping" =>
        CASE last.op = "Set" -> last.resp = Str("OK") /\ last.err = Nil
          [] last.op = "RPush" -> last.resp = Num(Len(last.args.vals)) /\ last.err = Nil
          [] last.op = "SAdd" ->
                last.resp = Num(Cardinality(Range(last.args.vals))) /\ last.err = Nil
          [] last.op = "ZAdd" ->
                last.resp = Num(Cardinality(ZMembers(Range(last.args.zs)))) /\ last.err = Nil
          [] last.op = "Incr" -> last.resp = Num(1) /\ last.err = Nil
          [] last.op = "LSet" -> last.resp = Zero /\ last.err = ErrNoSuchKey
          [] OTHER -> last.resp = Zero /\ last.err = Nil

\* C2 witness: LSet on a key that does not exist returned the store's error.
AbsentKeyResultWitness ==
    last.op = "LSet" /\ last.absent /\ last.err = ErrNoSuchKey

Popped(k) == ZMembers(Range(pops[k]))

\* C10: the members that consecutive ZPopMin(key) calls returned, with no
\* other write to the key in between, came one at a time and, when the scores
\* are pairwise distinct, in ascending score order, each below every score
\* still stored; no popped member is still stored or comes back from ZRange,
\* ZRangeByScore or ZRangeByScoreWithScores; ZPopMin of a missing key returns
\* an empty sequence and nil.
ZPopMinAscending ==
    /\ \A k \in Keys :
        LET P == pops[k]
            R == store[k].z
            all == Range(P) \cup R
        IN /\ (\A x, y \in all : x # y => x.Score # y.Score) =>
                /\ \A i, j \in 1..Len(P) : i < j => P[i].Score < P[j].Score
                /\ \A i \in 1..Len(P) : \A r \in R : P[i].Score < r.Score
           /\ Popped(k) \cap ZMembers(R) = {}
    /\ Executed /\ last.op = "ZPopMin" /\ last.args.cnt = <<>> =>
        /\ Len(last.resp.z) <= 1
        /\ last.absent => last.resp = Zero /\ last.err = Nil
    /\ Executed /\ last.op \in {"ZRange", "ZRangeByScore"} =>
        Range(last.resp.l) \cap Popped(last.args.key) = {}
    /\ Executed /\ last.op = "ZRangeByScoreWithScores" =>
        ZMembers(Range(last.resp.z)) \cap Popped(last.args.key) = {}

\* C10 witness: two ZPopMin calls returned two members, the lower score first,
\* and the key is gone.
ZPopMinAscendingWitness ==
    \E k \in Keys :
        /\ Len(pops[k]) = 2
        /\ pops[k][1].Score < pops[k][2].Score
        /\ store[k] = Absent
        /\ last.op = "ZPopMin"

\* C3: NewCache returns only when the startup Ping succeeded, and then with a
\* nil error and the client in the facade; when the Ping failed the fatal
\* event was logged, the process ended, and nothing was returned.
ProbeGuardsReturn ==
    /\ returned # <<>> =>
        /\ probe = Nil
        /\ returned[1].err = Nil
        /\ client = 1
        /\ phase \in {"connected", "closed"}
    /\ phase # "unconstructed" /\ probe # Nil =>
        phase = "terminated" /\ returned = <<>> /\ fatals = 1
    /\ phase = "terminated" => returned = <<>> /\ probe # Nil

\* C3 witness: the dial was refused and the process ended.
ProbeGuardsReturnWitness ==
    phase = "terminated" /\ probe = ConnRefused /\ fatals = 1 /\ returned = <<>>

\* C4: after construction every zero field of the Config holds its default,
\* every other field and the password are as supplied, and the client was
\* opened with these values; the zero Config gives 127.0.0.1:6379, database
\* 0, 3 retries and a pool of 10.
DefaultsResolved ==
    phase # "unconstructed" =>
        /\ config.Host = IF input.Host = "" THEN "127.0.0.1" ELSE input.Host
        /\ config.Port = IF input.Port = 0 THEN 6379 ELSE input.Port
        /\ config.DB = input.DB
        /\ config.MaxRetries = IF input.MaxRetries = 0 THEN 3 ELSE input.MaxRetries
        /\ config.PoolSize = IF input.PoolSize = 0 THEN 10 ELSE input.PoolSize
        /\ config.Password = input.Password
        /\ options = [Addr |-> config.Host \o ":" \o ToString(config.Port),
                      Password |-> config.Password, DB |-> config.DB,
                      MaxRetries |-> config.MaxRetries, PoolSize |-> config.PoolSize]
        /\ input = ZeroConfig =>
            options = [Addr |-> "127.0.0.1:6379", Password |-> "", DB |-> 0,
                       MaxRetries |-> 3, PoolSize |-> 10]

\* C4 witness: a facade built from a Config with only the port and the pool
\* size supplied.
DefaultsResolvedWitness ==
    /\ phase = "connected"
    /\ input = [ZeroConfig EXCEPT !.Port = 9876, !.PoolSize = 1]
    /\ options.Addr = "127.0.0.1:9876"
    /\ options.PoolSize = 1 /\ options.MaxRetries = 3

\* C5 as stated: over the lifetime of a facade NewCache returned, one
\* connect-success event is logged.
OneConnectLog == phase \in {"connected", "closed"} => logs = 1

\* C5 amended: one connect-success event is logged for every connection the
\* pool establishes: at least one by the time NewCache returns, and as many
\* over the lifetime as connections were opened.
ConnectLogPerConnection ==
    /\ logs = opened
    /\ phase \in {"connected", "closed"} => logs >= 1

\* C5 witness: a second connection was opened and logged.
ConnectLogPerConnectionWitness == phase = "connected" /\ opened = 2 /\ logs = 2

\* C6: a Ping called after Close comes back, and with an error.
PingAfterCloseFails ==
    /\ [](\A c \in Callers : pres[c].afterClose => pres[c].err # Nil)
    /\ \A c \in Callers :
        (pending[c] = "calledClosed") ~>
            (pending[c] = "idle" /\ pres[c].afterClose /\ pres[c].err # Nil)

\* C6 witness: a Ping called after Close returned "client is closed".
PingAfterCloseFailsWitness ==
    \E c \in Callers :
        /\ pending[c] = "idle" /\ pres[c].afterClose
        /\ pres[c].err = ErrClosed /\ pres[c].resp = Zero

\* C7: the first Close of a connected facade returns nil, leaves the client
\* closed with no connection open, and every Close returns what the client's
\* Close returned; GetClient returns the client and changes none of this.
CloseReleases ==
    /\ Len(closeRet) >= 1 =>
        closeRet[1].err = Nil /\ phase = "closed" /\ conns = 0
    /\ \A i \in 1..Len(closeRet) : closeRet[i].err = closeRet[i].cerr
    /\ phase = "closed" => Len(closeRet) >= 1 /\ returned # <<>>
    /\ phase = "connected" => returned # <<>> /\ closeRet = <<>>
    /\ handle \in {0, client}

\* C7 witness: the handle was read and the one Close returned nil.
CloseReleasesWitness ==
    /\ handle = 1
    /\ Len(closeRet) = 1
    /\ closeRet[1].err = Nil
    /\ phase = "closed"

====
